---- MODULE Spec2Model ----
(***************************************************************************)
(* A model of the AsyncNN discrete-event simulator: the Brain of           *)
(* src/core/brain.py driving the AsyncNeuron objects of                    *)
(* src/core/async_neuron.py.                                               *)
(*                                                                         *)
(* Numbers.  The program computes with Python floats.  The model uses      *)
(* integers: timestamps, delays, strengths, weights and potentials are     *)
(* integers, and math.exp(-decay * dt) is the factor 2^(-decay * dt), so   *)
(* that one unit of decay * dt halves the distance to the resting          *)
(* potential (the quotient is truncated toward zero).  The dynamic         *)
(* threshold is kept as an exact fraction num/den.                         *)
(*                                                                         *)
(* Scheduling.  propagate() pops one bucket, wraps one _process_input      *)
(* coroutine per event in a task and awaits asyncio.gather().  asyncio is  *)
(* cooperative: a task runs alone from one await to the next.  The only    *)
(* await that suspends is asyncio.sleep(psdelay) at the head of            *)
(* receive_input.  Tasks sleeping 0 resume first, in batch order; tasks    *)
(* sleeping a positive time resume by increasing psdelay, equal delays in  *)
(* an order the timer heap does not fix.  A lookup of an unregistered id   *)
(* in _process_input raises KeyError; gather hands it to propagate once    *)
(* the tasks that slept 0 have run, and the model stops there ("raised").  *)
(*                                                                         *)
(* Spec is the Brain under its API.  SpecSolo is one AsyncNeuron driven    *)
(* alone through receive_input, awaited to its return by its one caller.   *)
(***************************************************************************)
EXTENDS Integers, Sequences, FiniteSets, TLC

\* ------------------------------------------------------------------ bounds
MaxNeurons == 2
MaxTime == 1
MaxEvents == 2
MaxSynapses == 2
MaxDeliveries == 3
MaxSynapseObjects == 2
MaxEntries == 3
MaxElapsed == 4

NeuronIds == 0 .. (MaxNeurons - 1)
Timestamps == 0 .. MaxTime
Strengths == {1, 2}
Weights == {2}
Delays == {0, 1}
\* The designation the caller adds neuron id with: is_input = is_output.
RoleOf(id) == id % 2 = 0

\* The parameter records the caller constructs the Brain's neurons with.
NeuronConfigs ==
  { [rpotential |-> 0, threshold |-> 2, decay |-> 1, psdelay |-> 0,
     arperiod |-> 0, rrperiod |-> 0],
    [rpotential |-> -1, threshold |-> 1, decay |-> 1, psdelay |-> 1,
     arperiod |-> 0, rrperiod |-> 0] }

\* The parameter records and inputs of the neuron driven alone.
SoloConfigs ==
  NeuronConfigs \cup
  { [rpotential |-> 0, threshold |-> 2, decay |-> 1, psdelay |-> 0,
     arperiod |-> 1, rrperiod |-> 0],
    [rpotential |-> -1, threshold |-> 1, decay |-> 0, psdelay |-> 0,
     arperiod |-> 0, rrperiod |-> 2],
    [rpotential |-> -3, threshold |-> -1, decay |-> 1, psdelay |-> 0,
     arperiod |-> 0, rrperiod |-> 0] }
SoloTimes == 0 .. (MaxTime + 1)
SoloStrengths == -1 .. 3

VARIABLES
  time,            \* Brain.time
  neurons,         \* Brain.neurons: set of ids
  neurons_by_id,   \* Brain.neurons_by_id: id -> AsyncNeuron object
  connections,     \* Brain.connections: id -> sequence of Synapse
  input_neurons,   \* Brain.input_neurons
  output_neurons,  \* Brain.output_neurons
  input_buffer,    \* Brain.input_buffer: timestamp -> sequence of Input
  obj,             \* the AsyncNeuron objects the caller constructed, by id, not yet added
  phase,           \* "idle", "running" (inside propagate), "raised"
  events,          \* propagate's local list: the popped bucket
  tasks,           \* the _process_input tasks of the running propagate
  enqueued,        \* history: <<timestamp, Input>> added by _propagate_from in this call
  pre,             \* history: neurons_by_id and input_buffer when the tasks were made
  deleted,         \* history: ids delete_neuron was called with
  last,            \* history: the last API call
  solo,            \* an AsyncNeuron driven alone by receive_input
  solo_last,       \* history: the last receive_input on solo and what it returned
  solo_calls,      \* history: number of receive_input calls on solo
  synapses,        \* SynapseMap._synapses: synapse id -> Synapse object
  pre_synapses,    \* SynapseMap._pre_synapses: neuron id -> list of synapse ids
  post_synapses,   \* SynapseMap._post_synapses: neuron id -> list of synapse ids
  made,            \* the synapse.py Synapse objects the caller constructed, by id
  map_last,        \* history: the last SynapseMap call and whether it raised
  th_neuron,       \* an AsyncNeuron whose _get_dynamic_threshold is called
  th_last          \* history: the last _get_dynamic_threshold call and its result

bvars == << time, neurons, neurons_by_id, connections, input_neurons,
            output_neurons, input_buffer, obj, phase, events, tasks,
            enqueued, pre, deleted, last >>

svars == << solo, solo_last, solo_calls >>

gvars == << synapses, pre_synapses, post_synapses, made, map_last >>

tvars == << th_neuron, th_last >>

\* What the Brain does not touch.
ovars == << svars, gvars, tvars >>

vars == << bvars, svars, gvars, tvars >>

\* ---------------------------------------------------------------- helpers
RECURSIVE Pow2(_)
Pow2(n) == IF n <= 0 THEN 1 ELSE 2 * Pow2(n - 1)

\* Quotient truncated toward zero.
TruncDiv(x, d) == IF x >= 0 THEN x \div d ELSE -((-x) \div d)

\* x * math.exp(-decay * dt)
ExpDecay(x, decay, dt) ==
  IF decay * dt >= 0 THEN TruncDiv(x, Pow2(decay * dt))
  ELSE x * Pow2(-(decay * dt))

RECURSIVE SumLen(_, _)
SumLen(f, ks) ==
  IF ks = {} THEN 0
  ELSE LET k == CHOOSE x \in ks : TRUE IN Len(f[k]) + SumLen(f, ks \ {k})

\* Number of events in all buckets of a buffer, of synapses in all lists.
TotalLen(f) == SumLen(f, DOMAIN f)

\* Occurrences of x in the sequence s, of the event e in the bucket at ts.
Count(s, x) == Cardinality({k \in 1 .. Len(s) : s[k] = x})
CountIn(buf, ts, e) == IF ts \in DOMAIN buf THEN Count(buf[ts], e) ELSE 0

\* dict without key k / with key k set to v
DictDel(f, k) == [x \in DOMAIN f \ {k} |-> f[x]]
DictSet(f, k, v) == [x \in DOMAIN f \cup {k} |-> IF x = k THEN v ELSE f[x]]

\* ------------------------------------------------------------ AsyncNeuron
\* AsyncNeuron.__init__
NewNeuron(cfg) ==
  [potential |-> cfg.rpotential, rpotential |-> cfg.rpotential,
   threshold |-> cfg.threshold, decay |-> cfg.decay, psdelay |-> cfg.psdelay,
   arperiod |-> cfg.arperiod, rrperiod |-> cfg.rrperiod, last_input_time |-> 0]

\* AsyncNeuron.get_current_potential
get_current_potential(n, current_time) ==
  LET dt == current_time - n.last_input_time
  IN n.rpotential + ExpDecay(n.potential - n.rpotential, n.decay, dt)

\* mutant: the relative window is entered up to and including its end
get_dynamic_threshold_closed(n, current_time) ==
  LET dt == current_time - n.last_input_time
  IN IF dt < n.arperiod
       THEN [inf |-> TRUE, num |-> 0, den |-> 1]
     ELSE IF dt <= n.arperiod + n.rrperiod
       THEN LET elapsed == dt - n.arperiod
            IN [inf |-> FALSE,
                num |-> n.threshold * (2 * n.rrperiod - elapsed),
                den |-> n.rrperiod]
     ELSE [inf |-> FALSE, num |-> n.threshold, den |-> 1]

\* AsyncNeuron._get_dynamic_threshold: inf, or the fraction num/den (den > 0).
\* threshold + threshold * (1 - elapsed / rrperiod)
\*   = threshold * (2 * rrperiod - elapsed) / rrperiod
get_dynamic_threshold(n, current_time) ==
  LET dt == current_time - n.last_input_time
  IN IF dt < n.arperiod
       THEN [inf |-> TRUE, num |-> 0, den |-> 1]
     ELSE IF dt < n.arperiod + n.rrperiod
       THEN LET elapsed == dt - n.arperiod
            IN [inf |-> FALSE,
                num |-> n.threshold * (2 * n.rrperiod - elapsed),
                den |-> n.rrperiod]
     ELSE [inf |-> FALSE, num |-> n.threshold, den |-> 1]

\* mutant: the comparison is strict
ReachesThresholdStrict(potential, th) ==
  ~th.inf /\ potential * th.den > th.num

\* fired = self.potential >= threshold_now
ReachesThreshold(potential, th) ==
  ~th.inf /\ potential * th.den >= th.num

\* receive_input, its first two statements after the sleep:
\* old_potential = self.get_current_potential(current_time);
\* self.potential = old_potential
Decayed(n, current_time) ==
  [n EXCEPT !.potential = get_current_potential(n, current_time)]

\* mutant: the threshold is evaluated before last_input_time is set
IntegratedThresholdFirst(n, current_time, input_strength) ==
  LET threshold_now == get_dynamic_threshold(n, current_time)
      stamped == [n EXCEPT !.last_input_time = current_time]
      added == [stamped EXCEPT !.potential = @ + input_strength]
      fired == ReachesThreshold(added.potential, threshold_now)
  IN [neuron |-> IF fired THEN [added EXCEPT !.potential = added.rpotential]
                          ELSE added,
      fired |-> fired]

\* receive_input, the rest: self.last_input_time = current_time;
\* self.potential += input_strength; the threshold test; the reset on a fire.
Integrated(n, current_time, input_strength) ==
  LET stamped == [n EXCEPT !.last_input_time = current_time]
      added == [stamped EXCEPT !.potential = @ + input_strength]
      threshold_now == get_dynamic_threshold(added, current_time)
      fired == ReachesThreshold(added.potential, threshold_now)
  IN [neuron |-> IF fired THEN [added EXCEPT !.potential = added.rpotential]
                          ELSE added,
      fired |-> fired]

\* AsyncNeuron.receive_input, whole (the neuron after it and what it returns)
receive_input(n, current_time, input_strength) ==
  Integrated(Decayed(n, current_time), current_time, input_strength)

\* ------------------------------------------------------------------ Brain
Input(neuron_id, strength) == [neuron_id |-> neuron_id, strength |-> strength]

Synapse(target_id, weight, delay) ==
  [target_id |-> target_id, weight |-> weight, delay |-> delay]

\* The last API call: its name; for delete_neuron its argument and whether it
\* removed a registered neuron that had synapses and pending events; for
\* propagate whether it popped an empty bucket.  A propagate that returns
\* after its tasks leaves "other".
NoCall == [op |-> "other", id |-> -1, hit |-> FALSE]
Call(op) == [op |-> op, id |-> -1, hit |-> FALSE]

NoPre == << >>

\* Brain.neuron_exists
neuron_exists(neuron_id) == neuron_id \in neurons

\* mutant: the event goes to the head of its bucket
add_input_front(buf, timestamp, input) ==
  IF timestamp \in DOMAIN buf
    THEN [buf EXCEPT ![timestamp] = << input >> \o @]
    ELSE DictSet(buf, timestamp, << input >>)

\* Brain.add_input on a buffer
add_input(buf, timestamp, input) ==
  IF timestamp \in DOMAIN buf
    THEN [buf EXCEPT ![timestamp] = Append(@, input)]
    ELSE DictSet(buf, timestamp, << input >>)

\* Brain.disconnect_neuron on a connections dict
disconnect_neuron(conn, neuron_id) ==
  LET rest == DictDel(conn, neuron_id)
  IN [other_id \in DOMAIN rest |->
        SelectSeq(rest[other_id], LAMBDA syn : syn.target_id # neuron_id)]

\* The purge of delete_neuron: every bucket keeps its key.
PurgeBuffer(buf, neuron_id) ==
  [timestamp \in DOMAIN buf |->
     SelectSeq(buf[timestamp], LAMBDA input : input.neuron_id # neuron_id)]

\* Synapses that have neuron_id as source or target.
Touching(conn, neuron_id) ==
  (IF neuron_id \in DOMAIN conn THEN Len(conn[neuron_id]) ELSE 0)
  + TotalLen([k \in DOMAIN conn \ {neuron_id} |->
        SelectSeq(conn[k], LAMBDA syn : syn.target_id = neuron_id)])

Idle == phase = "idle"

\* Brain.add_neuron (the caller does not add a neuron it asked to delete)
AddNeuron(id, is_input, is_output) ==
  /\ Idle
  /\ id \notin deleted
  /\ IF ~neuron_exists(id)
       THEN /\ neurons' = neurons \cup {id}
            /\ neurons_by_id' = DictSet(neurons_by_id, id, obj[id])
            /\ connections' = DictSet(connections, id, << >>)
            /\ input_neurons' = IF is_input THEN input_neurons \cup {id} ELSE input_neurons
            /\ output_neurons' = IF is_output THEN output_neurons \cup {id} ELSE output_neurons
       ELSE UNCHANGED << neurons, neurons_by_id, connections, input_neurons, output_neurons >>
  /\ last' = NoCall
  /\ UNCHANGED << time, input_buffer, obj, phase, events, tasks, enqueued, pre,
                  deleted, ovars >>

\* Brain.delete_neuron
DeleteNeuron(id) ==
  /\ Idle
  /\ IF neuron_exists(id)
       THEN /\ input_neurons' = input_neurons \ {id}
            /\ output_neurons' = output_neurons \ {id}
            /\ connections' = disconnect_neuron(connections, id)
            /\ input_buffer' = PurgeBuffer(input_buffer, id)
            /\ neurons_by_id' = DictDel(neurons_by_id, id)
            /\ neurons' = neurons \ {id}
       ELSE UNCHANGED << neurons, neurons_by_id, connections, input_neurons,
                         output_neurons, input_buffer >>
  /\ deleted' = deleted \cup {id}
  /\ last' = [op |-> "delete_neuron", id |-> id,
              hit |-> /\ neuron_exists(id)
                      /\ TotalLen(PurgeBuffer(input_buffer, id)) < TotalLen(input_buffer)
                      /\ Touching(connections, id) > 0]
  /\ UNCHANGED << time, obj, phase, events, tasks, enqueued, pre, ovars >>

\* Brain.create_synapse
CreateSynapse(from_neuron_id, synapse) ==
  /\ Idle
  /\ TotalLen(connections) < MaxSynapses
  /\ IF neuron_exists(from_neuron_id) /\ neuron_exists(synapse.target_id)
       THEN connections' = [connections EXCEPT ![from_neuron_id] = Append(@, synapse)]
       ELSE UNCHANGED connections
  /\ last' = NoCall
  /\ UNCHANGED << time, neurons, neurons_by_id, input_neurons, output_neurons,
                  input_buffer, obj, phase, events, tasks, enqueued, pre,
                  deleted, ovars >>

\* Brain.add_input
AddInput(timestamp, input) ==
  /\ Idle
  /\ TotalLen(input_buffer) < MaxEvents
  /\ input_buffer' = add_input(input_buffer, timestamp, input)
  /\ last' = NoCall
  /\ UNCHANGED << time, neurons, neurons_by_id, connections, input_neurons,
                  output_neurons, obj, phase, events, tasks, enqueued, pre,
                  deleted, ovars >>

\* ------------------------------------------------------------- propagate
\* t_next = min(self.input_buffer.keys())
MinKey(buf) == CHOOSE t \in DOMAIN buf : \A k \in DOMAIN buf : t <= k

\* The task of _process_input(neuron_id, strength), run to its first
\* suspension: the lookup neurons_by_id[neuron_id] raises KeyError, or
\* receive_input(self.time, strength) is entered and sleeps.
NewTask(inp, keys, now) ==
  [neuron_id |-> inp.neuron_id, strength |-> inp.strength,
   pc |-> IF inp.neuron_id \in keys THEN "sleep" ELSE "failed",
   current_time |-> now, old_potential |-> 0]

\* mutant: the early return also resets the clock
PropagateIdleResetsTime ==
  /\ Idle
  /\ DOMAIN input_buffer = {}
  /\ time' = 0
  /\ last' = Call("propagate_idle")
  /\ UNCHANGED << neurons, neurons_by_id, connections, input_neurons,
                  output_neurons, input_buffer, obj, phase, events, tasks,
                  enqueued, pre, deleted, ovars >>

\* Brain.propagate with an empty buffer: return
PropagateIdle ==
  /\ Idle
  /\ DOMAIN input_buffer = {}
  /\ last' = Call("propagate_idle")
  /\ UNCHANGED << time, neurons, neurons_by_id, connections, input_neurons,
                  output_neurons, input_buffer, obj, phase, events, tasks,
                  enqueued, pre, deleted, ovars >>

\* Brain.propagate with a non-empty buffer, up to the await of gather (an
\* empty bucket makes no task and the call returns at once).
PropagateStart ==
  /\ Idle
  /\ DOMAIN input_buffer # {}
  /\ MinKey(input_buffer) <= MaxTime
  /\ TotalLen(input_buffer) <= MaxEvents
  /\ LET t_next == MinKey(input_buffer)
         popped == input_buffer[t_next]
     IN /\ time' = t_next
        /\ input_buffer' = DictDel(input_buffer, t_next)
        /\ events' = popped
        /\ tasks' = [i \in 1 .. Len(popped) |->
                       NewTask(popped[i], DOMAIN neurons_by_id, t_next)]
        /\ phase' = IF popped = << >> THEN "idle" ELSE "running"
        /\ pre' = IF popped = << >> THEN NoPre
                  ELSE [neurons_by_id |-> neurons_by_id,
                        input_buffer |-> DictDel(input_buffer, t_next)]
        /\ last' = [op |-> "propagate", id |-> -1, hit |-> popped = << >>]
  /\ enqueued' = << >>
  /\ UNCHANGED << neurons, neurons_by_id, connections, input_neurons,
                  output_neurons, obj, deleted, ovars >>

\* mutant: a second suspension, between the decay and the integration
SuspendsMidDelivery(pc) == pc \in {"sleep", "decayed"}

\* Where a task is suspended: await asyncio.sleep(self.psdelay)
SuspendsAt(pc) == pc = "sleep"

Finished(t) == t.pc \in {"done", "failed"}

\* In the middle of a run between two suspensions.
Active(t) == ~Finished(t) /\ ~SuspendsAt(t.pc)

PsDelay(t) == neurons_by_id[t.neuron_id].psdelay

\* The event loop's order of resumption of the sleeping tasks.
WakeOrder(i) ==
  IF PsDelay(tasks[i]) = 0
    THEN \A j \in 1 .. (i - 1) :
           tasks[j].pc = "sleep" => PsDelay(tasks[j]) # 0
    ELSE \A j \in 1 .. Len(tasks) :
           tasks[j].pc = "sleep" => PsDelay(tasks[j]) >= PsDelay(tasks[i])

\* Task i may take its next step.
CanRun(i) ==
  /\ phase = "running"
  /\ i \in 1 .. Len(tasks)
  /\ \A j \in 1 .. Len(tasks) : j # i => ~Active(tasks[j])
  /\ tasks[i].pc = "sleep" => WakeOrder(i)

TaskFrame == UNCHANGED << time, neurons, obj, connections, input_neurons,
                          output_neurons, phase, events, pre, deleted, last,
                          ovars >>

\* receive_input resumed after the sleep: the decay
Decay(i) ==
  /\ CanRun(i)
  /\ tasks[i].pc = "sleep"
  /\ LET n == tasks[i].neuron_id
         after == Decayed(neurons_by_id[n], tasks[i].current_time)
     IN /\ neurons_by_id' = [neurons_by_id EXCEPT ![n] = after]
        /\ tasks' = [tasks EXCEPT ![i].pc = "decayed",
                                  ![i].old_potential = after.potential]
  /\ TaskFrame
  /\ UNCHANGED << input_buffer, enqueued >>

\* receive_input after the decay, to its return
Integrate(i) ==
  /\ CanRun(i)
  /\ tasks[i].pc = "decayed"
  /\ LET n == tasks[i].neuron_id
         r == Integrated(neurons_by_id[n], tasks[i].current_time, tasks[i].strength)
     IN /\ neurons_by_id' = [neurons_by_id EXCEPT ![n] = r.neuron]
        /\ tasks' = [tasks EXCEPT ![i].pc = IF r.fired THEN "fired" ELSE "done",
                                  ![i].old_potential = 0]
  /\ TaskFrame
  /\ UNCHANGED << input_buffer, enqueued >>

\* mutant: the delay is ignored
ArrivalTimeNow(now, delay) == now

\* arrival_time = self.time + syn.delay
ArrivalTime(now, delay) == now + delay

\* mutant: the loop stops after the first synapse
ScheduleFirst(buf, syns, now) ==
  IF syns = << >> THEN buf
  ELSE add_input(buf, ArrivalTime(now, Head(syns).delay),
                 Input(Head(syns).target_id, Head(syns).weight))

\* Brain._propagate_from: the buffer after the loop over the synapses syns
RECURSIVE ScheduleAll(_, _, _)
ScheduleAll(buf, syns, now) ==
  IF syns = << >> THEN buf
  ELSE ScheduleAll(add_input(buf, ArrivalTime(now, Head(syns).delay),
                             Input(Head(syns).target_id, Head(syns).weight)),
                   Tail(syns), now)

\* self.connections.get(neuron_id, [])
get_synapses(neuron_id) ==
  IF neuron_id \in DOMAIN connections THEN connections[neuron_id] ELSE << >>

\* The <<timestamp, Input>> pairs _propagate_from hands to add_input.
Scheduled(syns, now) ==
  [k \in 1 .. Len(syns) |->
     << ArrivalTime(now, syns[k].delay), Input(syns[k].target_id, syns[k].weight) >>]

\* mutant: an event that arrives now is run in this call
PropagateFromSameCall(i) ==
  /\ CanRun(i)
  /\ tasks[i].pc = "fired"
  /\ LET syns == get_synapses(tasks[i].neuron_id)
         later == SelectSeq(syns, LAMBDA syn : syn.delay # 0)
         now == SelectSeq(syns, LAMBDA syn : syn.delay = 0)
     IN /\ input_buffer' = ScheduleAll(input_buffer, later, time)
        /\ enqueued' = enqueued \o Scheduled(syns, time)
        /\ tasks' = [tasks EXCEPT ![i].pc = "done"] \o
             [k \in 1 .. Len(now) |->
                NewTask(Input(now[k].target_id, now[k].weight),
                        DOMAIN neurons_by_id, time)]
  /\ TaskFrame
  /\ UNCHANGED neurons_by_id

\* mutant: the events are added to the buffer as it was when the call began
PropagateFromStale(i) ==
  /\ CanRun(i)
  /\ tasks[i].pc = "fired"
  /\ LET syns == get_synapses(tasks[i].neuron_id)
     IN /\ input_buffer' = ScheduleAll(pre.input_buffer, syns, time)
        /\ enqueued' = enqueued \o Scheduled(syns, time)
  /\ tasks' = [tasks EXCEPT ![i].pc = "done"]
  /\ TaskFrame
  /\ UNCHANGED neurons_by_id

\* _process_input: if fired: await self._propagate_from(neuron.id)
PropagateFrom(i) ==
  /\ CanRun(i)
  /\ tasks[i].pc = "fired"
  /\ LET syns == get_synapses(tasks[i].neuron_id)
     IN /\ input_buffer' = ScheduleAll(input_buffer, syns, time)
        /\ enqueued' = enqueued \o Scheduled(syns, time)
  /\ tasks' = [tasks EXCEPT ![i].pc = "done"]
  /\ TaskFrame
  /\ UNCHANGED neurons_by_id

\* gather: every task is done, propagate returns
PropagateReturn ==
  /\ phase = "running"
  /\ \A i \in 1 .. Len(tasks) : tasks[i].pc = "done"
  /\ phase' = "idle"
  /\ events' = << >>
  /\ tasks' = << >>
  /\ enqueued' = << >>
  /\ pre' = NoPre
  /\ last' = NoCall
  /\ UNCHANGED << time, neurons, neurons_by_id, connections, input_neurons,
                  output_neurons, input_buffer, obj, deleted, ovars >>

\* gather: a task raised KeyError; the tasks that slept 0 have run by the
\* time propagate is resumed with the exception, the others may still sleep.
PropagateRaise ==
  /\ phase = "running"
  /\ \E i \in 1 .. Len(tasks) : tasks[i].pc = "failed"
  /\ \A i \in 1 .. Len(tasks) :
       /\ ~Active(tasks[i])
       /\ tasks[i].pc = "sleep" => PsDelay(tasks[i]) > 0
  /\ phase' = "raised"
  /\ UNCHANGED << time, neurons, neurons_by_id, connections, input_neurons,
                  output_neurons, input_buffer, obj, events, tasks, enqueued,
                  pre, deleted, last, ovars >>

\* ------------------------------------------------------ the neuron alone
NoReceive == [op |-> "none", current_time |-> 0, input_strength |-> 0, fired |-> FALSE]

\* await neuron.receive_input(current_time, input_strength)
SoloReceive(current_time, input_strength) ==
  /\ solo_calls < MaxDeliveries
  /\ LET r == receive_input(solo, current_time, input_strength)
     IN /\ solo' = r.neuron
        /\ solo_last' = [op |-> "receive_input", current_time |-> current_time,
                         input_strength |-> input_strength, fired |-> r.fired]
  /\ solo_calls' = solo_calls + 1
  /\ UNCHANGED << bvars, gvars, tvars >>

\* ------------------------------------------------------------ SynapseMap
\* `synapse.pre_id is not None`: the value None of an endpoint
NoneId == -1

EndpointIds == NeuronIds \cup {NoneId}

\* synapse.py Synapse.__init__ (weight and delay play no part in the map)
MapSynapse(id, pre_id, post_id) == [id |-> id, pre_id |-> pre_id, post_id |-> post_id]

\* The three dicts of a SynapseMap as one value.
Graph == [synapses |-> synapses, pre_synapses |-> pre_synapses,
          post_synapses |-> post_synapses]

\* list.remove(x): the first occurrence goes
RemoveFirst(list, x) ==
  IF \E k \in 1 .. Len(list) : list[k] = x
    THEN LET first == CHOOSE k \in 1 .. Len(list) :
                        /\ list[k] = x
                        /\ \A j \in 1 .. (k - 1) : list[j] # x
         IN SubSeq(list, 1, first - 1) \o SubSeq(list, first + 1, Len(list))
    ELSE list

\* dict.setdefault(k, []).append(x)
SetDefaultAppend(d, k, x) ==
  IF k \in DOMAIN d THEN [d EXCEPT ![k] = Append(@, x)] ELSE DictSet(d, k, << x >>)

\* SynapseMap.create_synapse: the graph after the call
map_create_synapse(g, synapse) ==
  IF synapse.pre_id # NoneId /\ synapse.post_id # NoneId
    THEN [synapses |-> DictSet(g.synapses, synapse.id, synapse),
          pre_synapses |-> SetDefaultAppend(g.pre_synapses, synapse.pre_id, synapse.id),
          post_synapses |-> SetDefaultAppend(g.post_synapses, synapse.post_id, synapse.id)]
    ELSE g

\* SynapseMap.break_synapse: the graph after the call and whether it raised
map_break_synapse(g, syn_id) ==
  IF syn_id \notin DOMAIN g.synapses
    THEN [graph |-> g, raised |-> TRUE]
    ELSE [graph |->
            [synapses |-> DictDel(g.synapses, syn_id),
             pre_synapses |-> [pre_id \in DOMAIN g.pre_synapses |->
                                 RemoveFirst(g.pre_synapses[pre_id], syn_id)],
             post_synapses |-> [post_id \in DOMAIN g.post_synapses |->
                                  RemoveFirst(g.post_synapses[post_id], syn_id)]],
          raised |-> FALSE]

\* SynapseMap.disconnect_neuron: the graph after the call and whether it
\* raised.  Without both lists of neuron_id the first two lines raise.  With
\* delete the second `del self._pre_synapses[neuron_id]` raises, after the
\* records and the first list are gone.
map_disconnect_neuron(g, neuron_id, delete) ==
  IF neuron_id \notin DOMAIN g.pre_synapses \/ neuron_id \notin DOMAIN g.post_synapses
    THEN [graph |-> g, raised |-> TRUE]
    ELSE LET pre_syns == g.pre_synapses[neuron_id]
             post_syns == g.post_synapses[neuron_id]
             both == pre_syns \o post_syns
             gone == {both[k] : k \in 1 .. Len(both)}
             kept == [syn \in DOMAIN g.synapses \ gone |-> g.synapses[syn]]
         IN IF delete
              THEN [graph |-> [synapses |-> kept,
                               pre_synapses |-> DictDel(g.pre_synapses, neuron_id),
                               post_synapses |-> g.post_synapses],
                    raised |-> TRUE]
              ELSE [graph |-> [synapses |-> kept,
                               pre_synapses |-> [g.pre_synapses EXCEPT ![neuron_id] = << >>],
                               post_synapses |-> [g.post_synapses EXCEPT ![neuron_id] = << >>]],
                    raised |-> FALSE]

\* SynapseMap.add_neuron: the graph after the call and whether it raised
\* (an empty list is replaced by an empty list)
map_add_neuron(g, neuron_id) ==
  [graph |-> g,
   raised |-> neuron_id \notin DOMAIN g.pre_synapses
                \/ neuron_id \notin DOMAIN g.post_synapses]

MapCall(op, arg, delete, raised) ==
  [op |-> op, arg |-> arg, delete |-> delete, raised |-> raised]

MapFrame == UNCHANGED << bvars, svars, tvars >>

SetGraph(g) ==
  /\ synapses' = g.synapses
  /\ pre_synapses' = g.pre_synapses
  /\ post_synapses' = g.post_synapses

\* create_synapse(Synapse(pre_id, post_id, weight, delay)): a new object
MapCreateSynapse(pre_id, post_id) ==
  /\ Cardinality(DOMAIN made) < MaxSynapseObjects
  /\ TotalLen(pre_synapses) < MaxEntries
  /\ TotalLen(post_synapses) < MaxEntries
  /\ LET synapse == MapSynapse(Cardinality(DOMAIN made), pre_id, post_id)
     IN /\ made' = DictSet(made, synapse.id, synapse)
        /\ SetGraph(map_create_synapse(Graph, synapse))
        /\ map_last' = MapCall("create_synapse", synapse.id, FALSE, FALSE)
  /\ MapFrame

\* create_synapse(synapse) with an object the caller made before
MapCreateSynapseAgain(syn_id) ==
  /\ syn_id \in DOMAIN made
  /\ TotalLen(pre_synapses) < MaxEntries
  /\ TotalLen(post_synapses) < MaxEntries
  /\ SetGraph(map_create_synapse(Graph, made[syn_id]))
  /\ map_last' = MapCall("create_synapse_again", syn_id, FALSE, FALSE)
  /\ UNCHANGED made
  /\ MapFrame

\* SynapseMap.break_synapse
MapBreakSynapse(syn_id) ==
  /\ LET r == map_break_synapse(Graph, syn_id)
     IN /\ SetGraph(r.graph)
        /\ map_last' = MapCall("break_synapse", syn_id, FALSE, r.raised)
  /\ UNCHANGED made
  /\ MapFrame

\* SynapseMap.disconnect_neuron
MapDisconnectNeuron(neuron_id, delete) ==
  /\ LET r == map_disconnect_neuron(Graph, neuron_id, delete)
     IN /\ SetGraph(r.graph)
        /\ map_last' = MapCall("disconnect_neuron", neuron_id, delete, r.raised)
  /\ UNCHANGED made
  /\ MapFrame

\* SynapseMap.add_neuron
MapAddNeuron(neuron_id) ==
  /\ LET r == map_add_neuron(Graph, neuron_id)
     IN /\ SetGraph(r.graph)
        /\ map_last' = MapCall("add_neuron", neuron_id, FALSE, r.raised)
  /\ UNCHANGED made
  /\ MapFrame

\* ------------------------------------------------- the dynamic threshold
\* The parameter records of the neurons the threshold is asked of.
ThresholdConfigs ==
  [rpotential : {-1}, threshold : -2 .. 2, decay : {1}, psdelay : {0},
   arperiod : {0, 1}, rrperiod : 0 .. 2]

NoThreshold == [op |-> "none", elapsed |-> 0, inf |-> FALSE, num |-> 0, den |-> 1]

\* neuron._get_dynamic_threshold(current_time), the neuron's
\* last_input_time being 0
ThresholdCall(current_time) ==
  /\ LET th == get_dynamic_threshold(th_neuron, current_time)
     IN th_last' = [op |-> "threshold",
                    elapsed |-> current_time - th_neuron.last_input_time,
                    inf |-> th.inf, num |-> th.num, den |-> th.den]
  /\ UNCHANGED th_neuron
  /\ UNCHANGED << bvars, svars, gvars >>

\* ------------------------------------------------------------------ Spec
BrainInit ==
  /\ time = 0
  /\ neurons = {}
  /\ neurons_by_id = << >>
  /\ connections = << >>
  /\ input_neurons = {}
  /\ output_neurons = {}
  /\ input_buffer = << >>
  /\ phase = "idle"
  /\ events = << >>
  /\ tasks = << >>
  /\ enqueued = << >>
  /\ pre = NoPre
  /\ deleted = {}
  /\ last = NoCall

SoloRest ==
  /\ solo_last = NoReceive
  /\ solo_calls = 0

\* SynapseMap.__init__
MapInit ==
  /\ synapses = << >>
  /\ pre_synapses = << >>
  /\ post_synapses = << >>
  /\ made = << >>
  /\ map_last = MapCall("none", NoneId, FALSE, FALSE)

ThresholdRest == th_last = NoThreshold

\* The parts a specification does not move.
BrainAtRest ==
  /\ BrainInit
  /\ obj = [id \in NeuronIds |-> NewNeuron(CHOOSE cfg \in NeuronConfigs : cfg.psdelay = 0)]

SoloAtRest ==
  /\ solo = NewNeuron(CHOOSE cfg \in NeuronConfigs : cfg.psdelay = 0)
  /\ SoloRest

ThresholdAtRest ==
  /\ th_neuron = NewNeuron(CHOOSE cfg \in NeuronConfigs : cfg.psdelay = 0)
  /\ ThresholdRest

Init ==
  /\ BrainInit
  /\ obj \in { o \in [NeuronIds -> {NewNeuron(cfg) : cfg \in NeuronConfigs}] :
                 \A i, j \in NeuronIds : i <= j => o[i].psdelay <= o[j].psdelay }
  /\ SoloAtRest
  /\ MapInit
  /\ ThresholdAtRest

Next ==
  \/ \E id \in NeuronIds : AddNeuron(id, RoleOf(id), RoleOf(id))
  \/ \E id \in NeuronIds : DeleteNeuron(id)
  \/ \E from_neuron_id \in NeuronIds, target_id \in NeuronIds,
        weight \in Weights, delay \in Delays :
       CreateSynapse(from_neuron_id, Synapse(target_id, weight, delay))
  \/ \E timestamp \in Timestamps, neuron_id \in NeuronIds, strength \in Strengths :
       AddInput(timestamp, Input(neuron_id, strength))
  \/ PropagateIdle
  \/ PropagateStart
  \/ \E i \in 1 .. Len(tasks) : Decay(i)
  \/ \E i \in 1 .. Len(tasks) : Integrate(i)
  \/ \E i \in 1 .. Len(tasks) : PropagateFrom(i)
  \/ PropagateReturn
  \/ PropagateRaise

Spec == Init /\ [][Next]_vars

\* The neuron alone: every parameter record, any times, any strengths.
SoloInit ==
  /\ BrainAtRest
  /\ solo \in {NewNeuron(cfg) : cfg \in SoloConfigs}
  /\ SoloRest
  /\ MapInit
  /\ ThresholdAtRest

SoloNext ==
  \E current_time \in SoloTimes, input_strength \in SoloStrengths :
    SoloReceive(current_time, input_strength)

SpecSolo == SoloInit /\ [][SoloNext]_vars

\* The two-neuron chain: neuron 0 is A, neuron 1 is B, both with zero
\* post-synaptic delay and zero refractory periods.
ChainConfigs ==
  { cfg \in [rpotential : -1 .. 1, threshold : 1 .. 2, decay : {1},
             psdelay : {0}, arperiod : {0}, rrperiod : {0}] :
      cfg.threshold > cfg.rpotential }

ChainInit ==
  /\ BrainInit
  /\ obj \in [NeuronIds -> {NewNeuron(cfg) : cfg \in ChainConfigs}]
  /\ SoloAtRest
  /\ MapInit
  /\ ThresholdAtRest

\* brain.add_neuron(A); brain.add_neuron(B)
ChainAddNeuron(id) ==
  /\ id \in {0, 1}
  /\ ~neuron_exists(id)
  /\ AddNeuron(id, FALSE, FALSE)

\* brain.create_synapse(A.id, Synapse(B.id, B.threshold - B.rpotential, d))
ChainCreateSynapse(delay) ==
  /\ neurons = {0, 1}
  /\ TotalLen(connections) = 0
  /\ CreateSynapse(0, Synapse(1, obj[1].threshold - obj[1].rpotential, delay))

\* brain.add_input(0, Input(A.id, A.threshold)), once, before any propagate
ChainAddInput ==
  /\ TotalLen(connections) = 1
  /\ DOMAIN input_buffer = {}
  /\ time = 0
  /\ \A n \in neurons : neurons_by_id[n] = obj[n]
  /\ AddInput(0, Input(0, obj[0].threshold))

ChainNext ==
  \/ \E id \in NeuronIds : ChainAddNeuron(id)
  \/ \E delay \in Delays \ {0} : ChainCreateSynapse(delay)
  \/ ChainAddInput
  \/ PropagateIdle
  \/ PropagateStart
  \/ \E i \in 1 .. Len(tasks) : Decay(i)
  \/ \E i \in 1 .. Len(tasks) : Integrate(i)
  \/ \E i \in 1 .. Len(tasks) : PropagateFrom(i)
  \/ PropagateReturn

SpecChain == ChainInit /\ [][ChainNext]_vars

\* The Brain's wiring API, with the KeyError of a subscript on connections.
\* A call's entry in `last` has hit = TRUE when the call raised.
WiringCall(op, id, raised) == [op |-> op, id |-> id, hit |-> raised]

WiringFrame ==
  UNCHANGED << time, neurons, neurons_by_id, input_neurons, output_neurons,
               input_buffer, obj, phase, events, tasks, enqueued, pre,
               deleted, ovars >>

\* Brain.break_synapses on a connections dict: the dict after the call and
\* whether self.connections[from_neuron_id] raised KeyError
break_synapses(conn, from_neuron_id, to_neuron_id) ==
  IF ~neuron_exists(from_neuron_id)
    THEN [connections |-> conn, raised |-> FALSE]
  ELSE IF from_neuron_id \notin DOMAIN conn
    THEN [connections |-> conn, raised |-> TRUE]
  ELSE [connections |->
          [conn EXCEPT ![from_neuron_id] =
             SelectSeq(@, LAMBDA syn : syn.target_id # to_neuron_id)],
        raised |-> FALSE]

\* Brain.create_synapse; self.connections[from_neuron_id] raises KeyError
\* when the key is absent
CreateSynapseOrRaise(from_neuron_id, synapse) ==
  /\ Idle
  /\ TotalLen(connections) < MaxSynapses
  /\ IF neuron_exists(from_neuron_id) /\ neuron_exists(synapse.target_id)
       THEN IF from_neuron_id \in DOMAIN connections
              THEN /\ connections' = [connections EXCEPT ![from_neuron_id] = Append(@, synapse)]
                   /\ last' = WiringCall("create_synapse", from_neuron_id, FALSE)
              ELSE /\ UNCHANGED connections
                   /\ last' = WiringCall("create_synapse", from_neuron_id, TRUE)
       ELSE /\ UNCHANGED connections
            /\ last' = WiringCall("create_synapse", from_neuron_id, FALSE)
  /\ WiringFrame

\* Brain.break_synapses
BreakSynapses(from_neuron_id, to_neuron_id) ==
  /\ Idle
  /\ LET r == break_synapses(connections, from_neuron_id, to_neuron_id)
     IN /\ connections' = r.connections
        /\ last' = WiringCall("break_synapses", from_neuron_id, r.raised)
  /\ WiringFrame

\* Brain.sever_connection: break_synapses(a, b), then break_synapses(b, a)
SeverConnection(neuron_a_id, neuron_b_id) ==
  /\ Idle
  /\ IF neuron_exists(neuron_a_id) /\ neuron_exists(neuron_b_id)
       THEN LET first == break_synapses(connections, neuron_a_id, neuron_b_id)
                second == break_synapses(first.connections, neuron_b_id, neuron_a_id)
            IN IF first.raised
                 THEN /\ UNCHANGED connections
                      /\ last' = WiringCall("sever_connection", neuron_a_id, TRUE)
                 ELSE /\ connections' = second.connections
                      /\ last' = WiringCall("sever_connection", neuron_a_id, second.raised)
       ELSE /\ UNCHANGED connections
            /\ last' = WiringCall("sever_connection", neuron_a_id, FALSE)
  /\ WiringFrame

\* Brain.disconnect_neuron, called by the user
DisconnectNeuron(neuron_id) ==
  /\ Idle
  /\ connections' = disconnect_neuron(connections, neuron_id)
  /\ last' = WiringCall("disconnect_neuron", neuron_id, FALSE)
  /\ WiringFrame

WiringNext ==
  \/ \E id \in NeuronIds : AddNeuron(id, RoleOf(id), RoleOf(id))
  \/ \E id \in NeuronIds : DeleteNeuron(id)
  \/ \E from_neuron_id \in NeuronIds, target_id \in NeuronIds,
        weight \in Weights, delay \in Delays :
       CreateSynapseOrRaise(from_neuron_id, Synapse(target_id, weight, delay))
  \/ \E from_neuron_id \in NeuronIds, to_neuron_id \in NeuronIds :
       BreakSynapses(from_neuron_id, to_neuron_id)
  \/ \E neuron_a_id \in NeuronIds, neuron_b_id \in NeuronIds :
       SeverConnection(neuron_a_id, neuron_b_id)
  \/ \E neuron_id \in NeuronIds : DisconnectNeuron(neuron_id)

SpecWiring == Init /\ [][WiringNext]_vars

\* The SynapseMap under its API.
GraphInit ==
  /\ BrainAtRest
  /\ SoloAtRest
  /\ MapInit
  /\ ThresholdAtRest

GraphNext ==
  \/ \E pre_id \in EndpointIds, post_id \in EndpointIds : MapCreateSynapse(pre_id, post_id)
  \/ \E syn_id \in 0 .. (MaxSynapseObjects - 1) : MapCreateSynapseAgain(syn_id)
  \/ \E syn_id \in 0 .. (MaxSynapseObjects - 1) : MapBreakSynapse(syn_id)
  \/ \E neuron_id \in NeuronIds, delete \in BOOLEAN : MapDisconnectNeuron(neuron_id, delete)
  \/ \E neuron_id \in NeuronIds : MapAddNeuron(neuron_id)

SpecGraph == GraphInit /\ [][GraphNext]_vars

\* _get_dynamic_threshold asked at any elapsed time of any neuron.
ThresholdInit ==
  /\ BrainAtRest
  /\ SoloAtRest
  /\ MapInit
  /\ th_neuron \in {NewNeuron(cfg) : cfg \in ThresholdConfigs}
  /\ ThresholdRest

\* The time asked about may lie before last_input_time: Brain.time can be set
\* back to an earlier bucket's key.
ThresholdNext == \E current_time \in -1 .. MaxElapsed : ThresholdCall(current_time)

SpecThreshold == ThresholdInit /\ [][ThresholdNext]_vars

\* ---------------------------------------------------------------- claims
AllDone == phase = "running" /\ \A i \in 1 .. Len(tasks) : tasks[i].pc = "done"

CallStarts == phase = "idle" /\ phase' = "running"
CallReturns == phase = "running" /\ phase' = "idle"

\* C1: atomic batch commit.  A propagate call runs one delivery for each
\* event of the minimum-timestamp bucket as it was when the call began and
\* no other: the list of deliveries never grows during the call.  Every event
\* a fire adds during the call (also one whose timestamp is the time being
\* processed) is in the buffer for as long as the call runs and when it
\* returns, and a later call that pops that timestamp takes the whole bucket.
AtomicBatchCommit ==
  [][ /\ CallStarts =>
           /\ \E t \in DOMAIN input_buffer :
                /\ \A k \in DOMAIN input_buffer : t <= k
                /\ events' = input_buffer[t]
           /\ Len(tasks') = Len(events')
           /\ \A i \in 1 .. Len(events') :
                /\ tasks'[i].neuron_id = events'[i].neuron_id
                /\ tasks'[i].strength = events'[i].strength
      /\ (phase = "running" /\ phase' # "idle") =>
           /\ events' = events
           /\ Len(tasks') = Len(tasks)
           /\ \A i \in 1 .. Len(tasks) :
                /\ tasks'[i].neuron_id = tasks[i].neuron_id
                /\ tasks'[i].strength = tasks[i].strength
      /\ phase' # "idle" =>
           \A k \in 1 .. Len(enqueued') :
             CountIn(input_buffer', enqueued'[k][1], enqueued'[k][2])
               >= Count(enqueued', enqueued'[k])
      /\ CallReturns => input_buffer' = input_buffer
    ]_vars

\* A call about to return whose fire scheduled an event at the time being
\* processed; the event is in the buffer.
AtomicBatchCommitWitness ==
  /\ AllDone
  /\ \E k \in 1 .. Len(enqueued) :
       /\ enqueued[k][1] = time
       /\ CountIn(input_buffer, time, enqueued[k][2]) > 0

\* C2: after delete_neuron(id), no later propagate attempts a delivery to id
\* and no later propagate raises.
NoDeliveryToDeleted ==
  deleted # {} =>
    /\ phase # "raised"
    /\ \A i \in 1 .. Len(tasks) : tasks[i].neuron_id \notin deleted

\* C3: right after delete_neuron(id) returns, id is in none of neurons,
\* neurons_by_id, input_neurons, output_neurons, no synapse has id as source
\* or target, no bucket holds an event for id, and everything not touching
\* id is as before.
DeleteCascades ==
  [][ last'.op = "delete_neuron" =>
        LET id == last'.id
        IN /\ id \notin neurons'
           /\ id \notin DOMAIN neurons_by_id'
           /\ id \notin input_neurons'
           /\ id \notin output_neurons'
           /\ Touching(connections', id) = 0
           /\ id \notin DOMAIN connections'
           /\ \A ts \in DOMAIN input_buffer' :
                \A k \in 1 .. Len(input_buffer'[ts]) :
                  input_buffer'[ts][k].neuron_id # id
           /\ time' = time
           /\ neurons' = neurons \ {id}
           /\ \A n \in DOMAIN neurons_by_id' : neurons_by_id'[n] = neurons_by_id[n]
           /\ \A n \in DOMAIN connections' :
                connections'[n] =
                  SelectSeq(connections[n], LAMBDA syn : syn.target_id # id)
           /\ \A ts \in DOMAIN input_buffer :
                /\ ts \in DOMAIN input_buffer'
                /\ input_buffer'[ts] =
                     SelectSeq(input_buffer[ts], LAMBDA input : input.neuron_id # id)
    ]_vars

\* C4: with a non-empty buffer, propagate sets time to the minimum timestamp
\* key, removes exactly that bucket, and delivers each event of the bucket
\* exactly once to its target neuron with current_time equal to that
\* timestamp: when the call ends, every event of the bucket has been
\* received by its neuron.
StepDeliversBucket ==
  [][ /\ (phase = "idle" /\ last'.op = "propagate") =>
           \E t \in DOMAIN input_buffer :
             /\ \A k \in DOMAIN input_buffer : t <= k
             /\ time' = t
             /\ DOMAIN input_buffer' = DOMAIN input_buffer \ {t}
             /\ \A k \in DOMAIN input_buffer' : input_buffer'[k] = input_buffer[k]
             /\ Len(tasks') = Len(input_buffer[t])
             /\ \A i \in 1 .. Len(tasks') : tasks'[i].current_time = t
      /\ \A i \in 1 .. Len(tasks) :
           (phase = "running" /\ phase' # "idle" /\ tasks[i].pc = "decayed") =>
             /\ i \in 1 .. Len(tasks')
             /\ tasks'[i].pc \in {"decayed", "fired", "done"}
             /\ tasks'[i].pc # "decayed" =>
                  neurons_by_id'[tasks[i].neuron_id].last_input_time = time
      /\ (phase = "running" /\ phase' # "running") =>
           \A i \in 1 .. Len(tasks) : tasks[i].pc = "done"
    ]_vars

\* C5: the value of time after any operation is greater than or equal to
\* its value before the operation.
TimeNeverDecreases == [][time' >= time]_vars

\* C6: propagate on an empty buffer is a no-op: time, the neuron set, every
\* neuron's potential and last_input_time, the designations, the synapses
\* and the buffer are as before, so that repeating the call changes nothing.
EmptyPropagateIsNoOp ==
  [][ (phase = "idle" /\ DOMAIN input_buffer = {}
         /\ last'.op \in {"propagate", "propagate_idle"}) =>
        /\ time' = time
        /\ neurons' = neurons
        /\ neurons_by_id' = neurons_by_id
        /\ input_neurons' = input_neurons
        /\ output_neurons' = output_neurons
        /\ connections' = connections
        /\ input_buffer' = input_buffer
        /\ phase' = "idle"
    ]_vars

\* The empty propagate was called on a Brain that has run: time is past 0,
\* a neuron holds a potential other than its resting one, a synapse exists.
EmptyPropagateIsNoOpWitness ==
  /\ last.op = "propagate_idle"
  /\ time > 0
  /\ TotalLen(connections) > 0
  /\ \E n \in DOMAIN neurons_by_id :
       neurons_by_id[n].potential # neurons_by_id[n].rpotential

\* The events the synapses syns of a neuron firing at time now give rise to
\* that are the event e at timestamp ts.
Owed(syns, now, ts, e) ==
  Cardinality({k \in 1 .. Len(syns) :
                 /\ now + syns[k].delay = ts
                 /\ e = [neuron_id |-> syns[k].target_id, strength |-> syns[k].weight]})

IsPrefix(s, t) == Len(s) <= Len(t) /\ \A k \in 1 .. Len(s) : t[k] = s[k]

\* Task i ends a delivery that fired.
FireStep(i) == tasks[i].pc = "fired" /\ tasks'[i].pc = "done"

\* C7: when a delivery reports a fire of neuron n, each synapse of n's
\* outgoing list adds exactly one event, at the end of the bucket at
\* time + delay, with the synapse's weight and target (none when the list is
\* empty); no other step of a running propagate adds or removes an event.
FireSchedulesPerSynapse ==
  [][ (phase = "running" /\ phase' = "running") =>
        /\ \A i \in 1 .. Len(tasks) :
             FireStep(i) =>
               LET syns == connections[tasks[i].neuron_id]
               IN /\ \A ts \in DOMAIN input_buffer :
                       /\ ts \in DOMAIN input_buffer'
                       /\ IsPrefix(input_buffer[ts], input_buffer'[ts])
                  /\ \A ts \in DOMAIN input_buffer' :
                       \A k \in 1 .. Len(input_buffer'[ts]) :
                         LET e == input_buffer'[ts][k]
                         IN CountIn(input_buffer', ts, e)
                              = CountIn(input_buffer, ts, e) + Owed(syns, time, ts, e)
                  /\ TotalLen(input_buffer') = TotalLen(input_buffer) + Len(syns)
        /\ (\A i \in 1 .. Len(tasks) : ~FireStep(i)) => input_buffer' = input_buffer
    ]_vars

\* A fire of a neuron with two synapses of different delays has added its
\* two events.
FireSchedulesPerSynapseWitness ==
  /\ phase = "running"
  /\ Len(enqueued) = 2
  /\ enqueued[1][1] # enqueued[2][1]
  /\ \E i \in 1 .. Len(tasks) :
       /\ tasks[i].pc = "done"
       /\ Len(connections[tasks[i].neuron_id]) = 2

\* The batch delivered one event wholly after another, in the order of evs:
\* the neurons and the buffer it ends in.
RECURSIVE Sequential(_, _, _, _)
Sequential(nb, buf, evs, now) ==
  IF evs = << >> THEN [neurons_by_id |-> nb, input_buffer |-> buf]
  ELSE LET e == Head(evs)
           r == receive_input(nb[e.neuron_id], now, e.strength)
       IN Sequential([nb EXCEPT ![e.neuron_id] = r.neuron],
                     IF r.fired
                       THEN ScheduleAll(buf, connections[e.neuron_id], now)
                       ELSE buf,
                     Tail(evs), now)

Orders(n) ==
  {p \in [1 .. n -> 1 .. n] : \A i, j \in 1 .. n : i # j => p[i] # p[j]}

Permuted(evs, p) == [k \in 1 .. Len(evs) |-> evs[p[k]]]

\* The same events at the same timestamps, whatever their order in a bucket.
SameEvents(b1, b2) ==
  /\ DOMAIN b1 = DOMAIN b2
  /\ \A ts \in DOMAIN b1 :
       /\ Len(b1[ts]) = Len(b2[ts])
       /\ \A k \in 1 .. Len(b1[ts]) :
            CountIn(b1, ts, b1[ts][k]) = CountIn(b2, ts, b1[ts][k])

DistinctTargets ==
  \A i, j \in 1 .. Len(tasks) : i # j => tasks[i].neuron_id # tasks[j].neuron_id

\* C8: order-independence across neurons.  In a batch whose events target
\* pairwise distinct neurons, at every moment of every interleaving a neuron
\* whose delivery has run holds the state that delivery alone produces from
\* the state at the start of the call, and every other neuron holds its
\* state at the start; when all deliveries are done the neurons are those of
\* the sequential delivery in every order, and the buffer holds the same
\* events at the same timestamps as after each sequential delivery.
OrderIndependence ==
  (phase \in {"running", "raised"} /\ DistinctTargets) =>
    /\ \A i \in 1 .. Len(tasks) :
         LET n == tasks[i].neuron_id
         IN /\ tasks[i].pc = "sleep" => neurons_by_id[n] = pre.neurons_by_id[n]
            /\ tasks[i].pc \in {"fired", "done"} =>
                 neurons_by_id[n] =
                   receive_input(pre.neurons_by_id[n], time, tasks[i].strength).neuron
    /\ \A n \in DOMAIN neurons_by_id :
         (\A i \in 1 .. Len(tasks) : tasks[i].neuron_id # n) =>
           neurons_by_id[n] = pre.neurons_by_id[n]
    /\ AllDone =>
         \A p \in Orders(Len(events)) :
           LET ref == Sequential(pre.neurons_by_id, pre.input_buffer,
                                 Permuted(events, p), time)
           IN /\ neurons_by_id = ref.neurons_by_id
              /\ SameEvents(input_buffer, ref.input_buffer)

\* Two neurons fired in one batch and their events went to the same future
\* bucket, the event of the second neuron of the batch first.
OrderIndependenceWitness ==
  /\ AllDone
  /\ Len(tasks) = 2
  /\ DistinctTargets
  /\ Len(enqueued) = 2
  /\ enqueued[1] # enqueued[2]
  /\ enqueued[1][1] = enqueued[2][1]
  /\ Len(connections[events[1].neuron_id]) = 1
  /\ Len(connections[events[2].neuron_id]) = 1
  /\ enqueued[1] = Scheduled(connections[events[2].neuron_id], time)[1]
  /\ enqueued[2] = Scheduled(connections[events[1].neuron_id], time)[1]

\* C9: same-neuron serialization.  While a delivery to a neuron is between
\* its first read and its last write, no other delivery to that neuron takes
\* a step and the neuron holds what that delivery wrote; when the batch is
\* done the neurons are those of delivering the events one whole delivery
\* after another in some order.
SameNeuronSerialized ==
  [][ phase = "running" =>
        /\ \A i \in 1 .. Len(tasks) :
             tasks[i].pc = "decayed" =>
               /\ neurons_by_id[tasks[i].neuron_id].potential = tasks[i].old_potential
               /\ \A j \in 1 .. Len(tasks) :
                    (j # i /\ tasks[j].neuron_id = tasks[i].neuron_id
                       /\ phase' = "running") => tasks'[j] = tasks[j]
        /\ AllDone =>
             \E p \in Orders(Len(events)) :
               neurons_by_id =
                 Sequential(pre.neurons_by_id, pre.input_buffer,
                            Permuted(events, p), time).neurons_by_id
    ]_vars

\* Two events of one batch for the same neuron: the second has been
\* delivered wholly, and its potential differs from the resting one, while
\* the first is between its decay and its integration.
SameNeuronSerializedWitness ==
  /\ phase = "running"
  /\ Len(tasks) = 2
  /\ tasks[1].neuron_id = tasks[2].neuron_id
  /\ tasks[2].pc = "done"
  /\ tasks[1].pc = "decayed"
  /\ tasks[1].old_potential # neurons_by_id[tasks[1].neuron_id].rpotential

\* C10: firing rule.  receive_input returns true iff the potential decayed
\* to the delivery time plus the strength is greater than or equal to the
\* dynamic threshold; on a fire the stored potential is the resting potential,
\* otherwise it is the decayed potential plus the strength.
FiringRule ==
  [][ solo_calls' = solo_calls + 1 =>
        LET t == solo_last'.current_time
            p == get_current_potential(solo, t) + solo_last'.input_strength
            th == get_dynamic_threshold([solo EXCEPT !.last_input_time = t], t)
            reached == ~th.inf /\ p * th.den >= th.num
        IN /\ solo_last'.fired <=> reached
           /\ solo_last'.fired => solo'.potential = solo.rpotential
           /\ ~solo_last'.fired => solo'.potential = p
           /\ solo'.last_input_time = t
    ]_vars

\* A neuron that had a potential left from an earlier delivery fired on a
\* strength that took it above its threshold and is at a resting potential
\* other than 0.
FiringRuleWitness ==
  /\ solo_last.op = "receive_input"
  /\ solo_last.fired
  /\ solo_last.input_strength = 3
  /\ solo_calls > 1
  /\ solo.rpotential # 0
  /\ solo.potential = solo.rpotential

\* The neurons a SynapseMap has both lists for.
Registered == DOMAIN pre_synapses \cap DOMAIN post_synapses

IsCreate(op) == op \in {"create_synapse", "create_synapse_again"}

\* C11: create_synapse with a source or target that is not a registered
\* neuron stores no record and leaves every list, and the set of list keys,
\* as before the call (SynapseMap.create_synapse).
RejectsUnregisteredEndpoint ==
  [][ IsCreate(map_last'.op) =>
        LET synapse == made'[map_last'.arg]
        IN (synapse.pre_id \notin Registered \/ synapse.post_id \notin Registered) =>
             UNCHANGED << synapses, pre_synapses, post_synapses >>
    ]_vars

\* C12: after disconnect_neuron(id) no synapse record has id as source or
\* target, and no outgoing or incoming list of any neuron holds the id of a
\* synapse that has no record (SynapseMap.disconnect_neuron, delete False
\* and True).
DisconnectLeavesNoTrace ==
  [][ map_last'.op = "disconnect_neuron" =>
        LET id == map_last'.arg
        IN /\ \A syn \in DOMAIN synapses' :
                synapses'[syn].pre_id # id /\ synapses'[syn].post_id # id
           /\ \A n \in DOMAIN pre_synapses' :
                \A k \in 1 .. Len(pre_synapses'[n]) :
                  pre_synapses'[n][k] \in DOMAIN synapses'
           /\ \A n \in DOMAIN post_synapses' :
                \A k \in 1 .. Len(post_synapses'[n]) :
                  post_synapses'[n][k] \in DOMAIN synapses'
    ]_vars

\* C13: break_synapse on a known synapse id deletes its record and removes
\* its id from the outgoing list of its source and the incoming list of its
\* target, every other record and list entry staying as it is; on an unknown
\* id the graph is left unchanged.
BreakSynapseExact ==
  [][ map_last'.op = "break_synapse" =>
        LET syn_id == map_last'.arg
        IN IF syn_id \in DOMAIN synapses
             THEN /\ synapses' = DictDel(synapses, syn_id)
                  /\ DOMAIN pre_synapses' = DOMAIN pre_synapses
                  /\ DOMAIN post_synapses' = DOMAIN post_synapses
                  /\ \A n \in DOMAIN pre_synapses :
                       pre_synapses'[n] =
                         SelectSeq(pre_synapses[n], LAMBDA x : x # syn_id)
                  /\ \A n \in DOMAIN post_synapses :
                       post_synapses'[n] =
                         SelectSeq(post_synapses[n], LAMBDA x : x # syn_id)
             ELSE UNCHANGED << synapses, pre_synapses, post_synapses >>
    ]_vars

\* C14: add_neuron with an id that has no lists yet gives it an empty
\* outgoing and an empty incoming list and does not fail; with an id that has
\* them it leaves the graph unchanged.
RegisterNeuron ==
  [][ map_last'.op = "add_neuron" =>
        LET id == map_last'.arg
        IN /\ ~map_last'.raised
           /\ synapses' = synapses
           /\ DOMAIN pre_synapses' = DOMAIN pre_synapses \cup {id}
           /\ DOMAIN post_synapses' = DOMAIN post_synapses \cup {id}
           /\ \A n \in DOMAIN pre_synapses' :
                pre_synapses'[n] = IF n \in DOMAIN pre_synapses
                                     THEN pre_synapses[n] ELSE << >>
           /\ \A n \in DOMAIN post_synapses' :
                post_synapses'[n] = IF n \in DOMAIN post_synapses
                                      THEN post_synapses[n] ELSE << >>
    ]_vars

\* C15: exhaustion and re-arming.  With a buffer without keys nothing that is
\* called moves time or starts a delivery, and a propagate changes nothing,
\* until an event is added; an added event goes to the end of the bucket of
\* its timestamp, which is created if absent, whatever the timestamp is
\* relative to the time; and a propagate on a buffer with keys takes the
\* bucket of the smallest key and sets time to that key, also when the key
\* is below the time.
Rearming ==
  [][ /\ (phase = "idle" /\ DOMAIN input_buffer = {}) =>
           /\ phase' = "idle"
           /\ time' = time
           /\ TotalLen(input_buffer') <= 1
           /\ last'.op \in {"propagate", "propagate_idle"} =>
                UNCHANGED << neurons, neurons_by_id, connections, input_neurons,
                             output_neurons, input_buffer >>
      /\ (phase = "idle" /\ TotalLen(input_buffer') > TotalLen(input_buffer)) =>
           /\ time' = time
           /\ phase' = "idle"
           /\ \E ts \in DOMAIN input_buffer' :
                LET bucket == input_buffer'[ts]
                    e == bucket[Len(bucket)]
                IN /\ bucket # << >>
                   /\ input_buffer' =
                        IF ts \in DOMAIN input_buffer
                          THEN [input_buffer EXCEPT ![ts] = Append(@, e)]
                          ELSE [t \in DOMAIN input_buffer \cup {ts} |->
                                  IF t = ts THEN << e >> ELSE input_buffer[t]]
      /\ (phase = "idle" /\ last'.op = "propagate") =>
           \E t \in DOMAIN input_buffer :
             /\ \A k \in DOMAIN input_buffer : t <= k
             /\ time' = t
             /\ events' = input_buffer[t]
             /\ t \notin DOMAIN input_buffer'
    ]_vars

\* A propagate is delivering an event at a time below the time of an earlier
\* delivery: the event was scheduled into the past.
RearmingWitness ==
  /\ phase = "running"
  /\ Len(events) > 0
  /\ \E n \in DOMAIN neurons_by_id : neurons_by_id[n].last_input_time > time
  /\ \A k \in DOMAIN input_buffer : k > time

\* The one pending event of the chain: for B, at the synapse's delay.
ChainPending ==
  LET syn == connections[0][1]
  IN [t \in {syn.delay} |-> << [neuron_id |-> 1, strength |-> syn.weight] >>]

\* The chain as far as it depends on A firing: every delivery fires, the
\* first propagate leaves the one event for B at the delay, the second sets
\* time to the delay and delivers it, and then no event is left.
ChainRuns ==
  /\ (phase = "running" /\ Len(tasks) = 1 /\ tasks[1].pc = "decayed") =>
       (Len(tasks') = 1 /\ tasks'[1].pc = "fired")
  /\ (CallReturns /\ time = 0) => input_buffer = ChainPending
  /\ (CallStarts /\ neurons_by_id[1].last_input_time = 0
        /\ input_buffer = ChainPending) =>
       /\ time' = connections[0][1].delay
       /\ Len(tasks') = 1
       /\ tasks'[1].neuron_id = 1
       /\ tasks'[1].strength = connections[0][1].weight
  /\ (CallReturns /\ time > 0) => TotalLen(input_buffer) = 0

\* C16: in the chain A -> B (weight B.threshold - B.rpotential, delay d > 0)
\* with one event for A at 0 of strength A.threshold, the first propagate
\* makes A fire and leaves one event, for B, at d; the second sets time to d,
\* delivers it and B fires; then the buffer holds no event.
ChainScenario == [][ChainRuns]_vars

\* C16, amended: the same when A's resting potential is not negative; when
\* it is negative A does not fire on a strength equal to its threshold and
\* the first propagate leaves the buffer without an event.
ChainScenarioFromRest ==
  [][ /\ obj[0].rpotential >= 0 => ChainRuns
      /\ (obj[0].rpotential < 0 /\ phase = "running" /\ time = 0) =>
           /\ \A i \in 1 .. Len(tasks) :
                (i \in 1 .. Len(tasks') /\ tasks[i].pc = "decayed") =>
                  tasks'[i].pc = "done"
           /\ TotalLen(input_buffer') = 0
    ]_vars

\* B has fired at the delay, on the event A's fire scheduled, and nothing is
\* pending.
ChainScenarioWitness ==
  /\ AllDone
  /\ time > 0
  /\ Len(enqueued) = 0
  /\ tasks[1].neuron_id = 1
  /\ neurons_by_id[1].potential = neurons_by_id[1].rpotential
  /\ neurons_by_id[1].last_input_time = time
  /\ TotalLen(input_buffer) = 0

\* C17: time changes only in a propagate that takes at least one event out of
\* the buffer; a buffer whose buckets are all empty is treated like a buffer
\* without buckets (time unchanged, nothing popped).
TimeOnlyWithDelivery ==
  [][ /\ time' # time => (last'.op = "propagate" /\ Len(events') > 0)
      /\ (phase = "idle" /\ last'.op \in {"propagate", "propagate_idle"}
            /\ TotalLen(input_buffer) = 0) =>
           (time' = time /\ input_buffer' = input_buffer /\ phase' = "idle")
    ]_vars

\* C18: when a propagate call ends, by returning or by raising, every
\* delivery of its batch has run to its end: none is still asleep, none was
\* dropped.
RunsBatchToCompletion ==
  [][ (phase = "running" /\ phase' # "running") =>
        \A i \in 1 .. Len(tasks) : tasks[i].pc = "done" ]_vars

\* C19: receive_input evaluates the threshold with an elapsed time of zero,
\* whatever the time since the previous delivery: a neuron with arperiod > 0
\* never fires; with arperiod = 0 and rrperiod > 0 the test is against the
\* value at the start of the relative window, twice the baseline; with both
\* periods 0 it is against the baseline.
ThresholdAtZeroElapsed ==
  [][ solo_calls' = solo_calls + 1 =>
        LET t == solo_last'.current_time
            p == get_current_potential(solo, t) + solo_last'.input_strength
        IN /\ solo.arperiod > 0 => ~solo_last'.fired
           /\ (solo.arperiod = 0 /\ solo.rrperiod > 0) =>
                (solo_last'.fired <=> p >= 2 * solo.threshold)
           /\ (solo.arperiod = 0 /\ solo.rrperiod = 0) =>
                (solo_last'.fired <=> p >= solo.threshold)
    ]_vars

\* A neuron with arperiod > 0 whose first delivery came after the period had
\* passed, with a potential above the baseline threshold, and did not fire.
ThresholdAtZeroElapsedWitness ==
  /\ solo_last.op = "receive_input"
  /\ solo_calls = 1
  /\ solo.arperiod > 0
  /\ solo_last.current_time > solo.arperiod
  /\ solo.potential >= solo.threshold
  /\ ~solo_last.fired

\* C20: for an elapsed time inside the relative refractory window
\* (arperiod <= dt < arperiod + rrperiod) the dynamic threshold is finite,
\* greater than or equal to the baseline threshold, not smaller than its
\* value at any later time of the window, and no further from the baseline
\* than the share of the window that remains.
ElevatedInWindow ==
  LET n == th_neuron
      dt == th_last.elapsed
      InWindow(e) == n.arperiod <= e /\ e < n.arperiod + n.rrperiod
      gap == th_last.num - n.threshold * th_last.den
  IN (th_last.op = "threshold" /\ InWindow(dt)) =>
       /\ ~th_last.inf
       /\ th_last.num >= n.threshold * th_last.den
       /\ \A later \in dt .. MaxElapsed :
            InWindow(later) =>
              LET th == get_dynamic_threshold(n, n.last_input_time + later)
              IN th.num * th_last.den <= th_last.num * th.den
       /\ gap * n.rrperiod <=
            (IF n.threshold < 0 THEN -n.threshold ELSE n.threshold)
              * (n.arperiod + n.rrperiod - dt) * th_last.den

\* C21: for a neuron with rrperiod = 0, whatever the elapsed time and the
\* arperiod, the threshold computation does not divide by rrperiod (the
\* divisor of the value it returns is not 0) and returns the infinite
\* threshold when the elapsed time is below arperiod and the baseline
\* threshold otherwise.
NoDivisionByZero ==
  (th_last.op = "threshold" /\ th_neuron.rrperiod = 0) =>
    /\ th_last.den # 0
    /\ th_last.elapsed < th_neuron.arperiod => th_last.inf
    /\ th_last.elapsed >= th_neuron.arperiod =>
         /\ ~th_last.inf
         /\ th_last.num = th_neuron.threshold * th_last.den

\* The threshold was asked exactly at the end of the absolute period of a
\* neuron with rrperiod = 0, where an empty relative window would begin, and
\* the baseline came back.
NoDivisionByZeroWitness ==
  /\ th_last.op = "threshold"
  /\ th_neuron.rrperiod = 0
  /\ th_neuron.arperiod > 0
  /\ th_last.elapsed = th_neuron.arperiod
  /\ ~th_last.inf
  /\ th_last.num = th_neuron.threshold
  /\ th_neuron.threshold < 0

\* C22: index consistency of the SynapseMap.  Every id in the outgoing list
\* of a neuron has a stored record whose pre_id is that neuron, every id in
\* the incoming list of a neuron has a stored record whose post_id is that
\* neuron, and the id of every stored record is exactly once in the outgoing
\* list of its source and exactly once in the incoming list of its target.
IndexConsistency ==
  /\ \A a \in DOMAIN pre_synapses : \A k \in 1 .. Len(pre_synapses[a]) :
       LET id == pre_synapses[a][k]
       IN id \in DOMAIN synapses /\ synapses[id].pre_id = a
  /\ \A b \in DOMAIN post_synapses : \A k \in 1 .. Len(post_synapses[b]) :
       LET id == post_synapses[b][k]
       IN id \in DOMAIN synapses /\ synapses[id].post_id = b
  /\ \A id \in DOMAIN synapses :
       LET synapse == synapses[id]
       IN /\ synapse.pre_id \in DOMAIN pre_synapses
          /\ Count(pre_synapses[synapse.pre_id], id) = 1
          /\ synapse.post_id \in DOMAIN post_synapses
          /\ Count(post_synapses[synapse.post_id], id) = 1

\* C23: every registered neuron is a key of connections, and create_synapse,
\* break_synapses and sever_connection never raise.
RegisteredHasList ==
  /\ neurons \subseteq DOMAIN connections
  /\ last.op \in {"create_synapse", "break_synapses", "sever_connection"} =>
       ~last.hit

====
